---- MODULE Spec2Model ----
(***************************************************************************)
(* ChromaSense (src/src/App.tsx): the session state machine of the App     *)
(* component (gameState, score, timeLeft, levelData, lastDiff), its        *)
(* one-second interval timer and the colour generator.                     *)
(*                                                                         *)
(* Numbers that the program computes in steps of 0.25 (the perturbation    *)
(* delta and every colour channel it is added to) are held in quarter      *)
(* units: a channel value v is stored as v * Scale.  All of the program's  *)
(* arithmetic on them is exact in IEEE doubles, so nothing is lost.        *)
(*                                                                         *)
(* One action is one browser event handled to completion: the handler,     *)
(* the state updates it queues, the re-render and the [gameState] effect   *)
(* (cleanup, then body) that the re-render triggers.                       *)
(***************************************************************************)
EXTENDS Integers, FiniteSets, Sequences, TLC

VARIABLES
    gameState,      \* useState<GameState>('START')                (line 34)
    score,          \* useState(0)                                 (line 35)
    timeLeft,       \* useState(60)                                (line 36)
    levelData,      \* useState<LevelData | null>(null)            (line 37)
    lastDiff,       \* useState<{base, diff, delta} | null>(null)  (line 38)
    timerRef,       \* useRef<NodeJS.Timeout | null>(null)         (line 39)
    intervals,      \* the runtime's table of live setInterval handles
    confetti,       \* calls of confetti() made by the event handled last
    lastEvent,      \* history: the event handled last
    lastIndex,      \* history: the cell it clicked, -1 if it was no click
    prevGameState   \* history: gameState before the event handled last

vars == <<gameState, score, timeLeft, levelData, lastDiff, timerRef,
          intervals, confetti, lastEvent, lastIndex, prevGameState>>

----------------------------------------------------------------------------
(* Bounds of the model *)

\* correct clicks are accepted while score < MaxScore
MaxScore == 2
\* the generator is applied to the difficulties 0..MaxDifficulty
MaxDifficulty == 60

(* Program constants *)

\* 0.25 = 1 / Scale: the step of the difficulty formula
Scale == 4
\* const gridSize = 5
GridSize == 5
\* setTimeLeft(60), Math.min(60, ...)
FullTime == 60
\* Math.min(60, prev + 2)
BonusSeconds == 2
\* Math.max(0, prev - 5)
PenaltySeconds == 5
\* hue wraps at 360
HueCircle == 360
\* 15 - difficulty * 0.25
BaseDelta == 15

\* useRef(null): no handle; the handles setInterval returns are positive
NoTimer == 0

\* a nullable state value is a sequence of length at most one
Null == <<>>
Some(v) == <<v>>

Min(a, b) == IF a < b THEN a ELSE b
Max(a, b) == IF a > b THEN a ELSE b
Abs(a) == IF a < 0 THEN -a ELSE a

----------------------------------------------------------------------------
(* Math.random(): the draws the model takes, each a value the call can     *)
(* return (after the Math.floor scaling the code applies to it).           *)

\* Math.floor(Math.random() * 360)
HueDraws == {10, 350}
\* Math.floor(Math.random() * 40) + 40
SatDraws == {79}
\* Math.floor(Math.random() * 40) + 30
LightDraws == {30}
\* Math.random() in hundredths, one draw on each side of 0.33 and 0.66
TypeDraws == {32, 33, 66}
\* Math.random() in hundredths, one draw on each side of 0.5
SignDraws == {50, 51}
\* Math.floor(Math.random() * (gridSize * gridSize))
IndexDraws == {0, GridSize * GridSize - 1}

----------------------------------------------------------------------------
(* generateColor *)

\* fault variant of delta: the floor is 2, not 1.5
delta_FloorTwo(difficulty) ==
    Max(2 * Scale, BaseDelta * Scale - difficulty)

\* Math.max(1.5, 15 - difficulty * 0.25), in quarter units
delta(difficulty) ==
    Max((3 * Scale) \div 2, BaseDelta * Scale - difficulty)

\* Math.min(100, Math.max(0, v)) on a quarter-unit value
Clamp100(v) == Min(100 * Scale, Max(0, v))

\* fault variant of Perturb: the hue is not wrapped
Perturb_NoWrap(difficulty, h, s, l, type, sign, idx) ==
    LET d    == delta(difficulty)
        bh   == h * Scale
        bs   == s * Scale
        bl   == l * Scale
        step == IF sign > 50 THEN d ELSE -d
        dh   == IF type < 33 THEN bh + d ELSE bh
        ds   == IF type >= 33 /\ type < 66 THEN Clamp100(bs + step) ELSE bs
        dl   == IF type >= 66 THEN Clamp100(bl + step) ELSE bl
    IN  [baseColor |-> [h |-> bh, s |-> bs, l |-> bl],
         diffColor |-> [h |-> dh, s |-> ds, l |-> dl],
         diffIndex |-> idx,
         gridSize  |-> GridSize]

\* fault variant of Perturb: the second test is a plain if, not an else if
Perturb_NoElse(difficulty, h, s, l, type, sign, idx) ==
    LET d    == delta(difficulty)
        bh   == h * Scale
        bs   == s * Scale
        bl   == l * Scale
        step == IF sign > 50 THEN d ELSE -d
        dh   == IF type < 33 THEN (bh + d) % (HueCircle * Scale) ELSE bh
        ds   == IF type < 66 THEN Clamp100(bs + step) ELSE bs
        dl   == IF type >= 66 THEN Clamp100(bl + step) ELSE bl
    IN  [baseColor |-> [h |-> bh, s |-> bs, l |-> bl],
         diffColor |-> [h |-> dh, s |-> ds, l |-> dl],
         diffIndex |-> idx,
         gridSize  |-> GridSize]

\* The body of generateColor once its five random numbers are drawn:
\* h, s, l are the base channels, type and sign the two raw draws in
\* hundredths, idx the drawn cell.
Perturb(difficulty, h, s, l, type, sign, idx) ==
    LET d    == delta(difficulty)
        bh   == h * Scale
        bs   == s * Scale
        bl   == l * Scale
        step == IF sign > 50 THEN d ELSE -d
        dh   == IF type < 33 THEN (bh + d) % (HueCircle * Scale) ELSE bh
        ds   == IF type >= 33 /\ type < 66 THEN Clamp100(bs + step) ELSE bs
        dl   == IF type >= 66 THEN Clamp100(bl + step) ELSE bl
    IN  [baseColor |-> [h |-> bh, s |-> bs, l |-> bl],
         diffColor |-> [h |-> dh, s |-> ds, l |-> dl],
         diffIndex |-> idx,
         gridSize  |-> GridSize]

\* every LevelData generateColor(difficulty) can return under the draws
generateColor(difficulty) ==
    { Perturb(difficulty, h, s, l, type, sign, idx) :
        h \in HueDraws, s \in SatDraws, l \in LightDraws,
        type \in TypeDraws, sign \in SignDraws, idx \in IndexDraws }

\* Math.floor(Math.random() * n) of a draw r given in thousandths
randomFloor(r, n) == (r * n) \div 1000

\* Math.random() in thousandths, for the base hue: the ends of the circle
\* and the hues either side of where adding 15, or 1.5, wraps past 360
WideHueRandoms == {0, 3, 500, 957, 959, 962, 995, 999}
\* Math.random() in thousandths, for the other floored draws: both ends
WideRandoms == {0, 999}
\* Math.random() in hundredths, both sides of 0.33 and 0.66 and both ends
WideTypeDraws == {0, 32, 33, 65, 66, 99}
\* Math.random() in hundredths, both sides of 0.5 and both ends
WideSignDraws == {0, 50, 51, 99}

\* the perturbation draws of generateColor for given base channels
perturbFrom(difficulty, h, s, l) ==
    { Perturb(difficulty, h, s, l, type, sign,
              randomFloor(ri, GridSize * GridSize)) :
        type \in WideTypeDraws, sign \in WideSignDraws, ri \in WideRandoms }

\* generateColor(difficulty) under the wide draws, the base channels
\* computed from the raw random numbers as lines 42-44 do
generateColorWide(difficulty) ==
    UNION { perturbFrom(difficulty,
                        randomFloor(rh, 360),
                        randomFloor(rs, 40) + 40,
                        randomFloor(rl, 40) + 30) :
              rh \in WideHueRandoms, rs \in WideRandoms, rl \in WideRandoms }

----------------------------------------------------------------------------
(* The timer effect: useEffect(..., [gameState]) *)

\* clearInterval(id)
clearInterval(live, id) == live \ {id}

\* setInterval returns a handle no live timer has.  The one reference the
\* program keeps, timerRef, is overwritten with the new handle at once, so
\* the least free handle stands for a fresh one.
newHandle(live) ==
    CHOOSE id \in 1..(Cardinality(live) + 1) :
        /\ id \notin live
        /\ \A j \in 1..(id - 1) : j \in live

\* fault variant of timerEffect: no cleanup and no clearInterval, so every
\* entry into PLAYING leaves one more interval running
timerEffect_Leak(next) ==
    IF next = gameState
    THEN UNCHANGED <<timerRef, intervals>>
    ELSE IF next = "PLAYING"
         THEN /\ timerRef' = newHandle(intervals)
              /\ intervals' = intervals \cup {timerRef'}
         ELSE UNCHANGED <<timerRef, intervals>>

\* fault variant of timerEffect: the dependency list is empty, so the effect
\* runs at mount only, when gameState is START
timerEffect_MountOnly(next) == UNCHANGED <<timerRef, intervals>>

\* The effect as the re-render to state next runs it: nothing when gameState
\* is unchanged; otherwise the previous run's cleanup, then the body.
timerEffect(next) ==
    IF next = gameState
    THEN UNCHANGED <<timerRef, intervals>>
    ELSE LET cleaned == IF timerRef # NoTimer
                        THEN clearInterval(intervals, timerRef)
                        ELSE intervals
         IN  IF next = "PLAYING"
             THEN /\ timerRef' = newHandle(cleaned)
                  /\ intervals' = cleaned \cup {timerRef'}
             ELSE /\ timerRef' = timerRef
                  /\ intervals' = IF timerRef # NoTimer
                                  THEN clearInterval(cleaned, timerRef)
                                  ELSE cleaned

----------------------------------------------------------------------------
Init ==
    /\ gameState = "START"
    /\ score = 0
    /\ timeLeft = FullTime
    /\ levelData = Null
    /\ lastDiff = Null
    /\ timerRef = NoTimer
    /\ intervals = {}
    /\ confetti = 0
    /\ lastEvent = "none"
    /\ lastIndex = -1
    /\ prevGameState = "START"

\* fault variant of startGame: the first level is generated from the score
\* of the render that handled the click, not from 0
startGame_StaleDifficulty ==
    /\ gameState \in {"START", "GAMEOVER"}
    /\ score' = 0
    /\ timeLeft' = FullTime
    /\ gameState' = "PLAYING"
    /\ \E level \in generateColor(score) : levelData' = Some(level)
    /\ lastDiff' = Null
    /\ timerEffect("PLAYING")
    /\ confetti' = 0
    /\ lastEvent' = "start"
    /\ lastIndex' = -1
    /\ prevGameState' = gameState

\* fault variant of startGame: a level is generated only when none is held
startGame_KeepsLevel ==
    /\ gameState \in {"START", "GAMEOVER"}
    /\ score' = 0
    /\ timeLeft' = FullTime
    /\ gameState' = "PLAYING"
    /\ IF levelData = Null
       THEN \E level \in generateColor(0) : levelData' = Some(level)
       ELSE UNCHANGED levelData
    /\ lastDiff' = Null
    /\ timerEffect("PLAYING")
    /\ confetti' = 0
    /\ lastEvent' = "start"
    /\ lastIndex' = -1
    /\ prevGameState' = gameState

\* fault variant of startGame: the score is not reset
startGame_KeepsScore ==
    /\ gameState \in {"START", "GAMEOVER"}
    /\ UNCHANGED score
    /\ timeLeft' = FullTime
    /\ gameState' = "PLAYING"
    /\ \E level \in generateColor(0) : levelData' = Some(level)
    /\ lastDiff' = Null
    /\ timerEffect("PLAYING")
    /\ confetti' = 0
    /\ lastEvent' = "start"
    /\ lastIndex' = -1
    /\ prevGameState' = gameState

\* startGame, reachable from the buttons of the START and GAMEOVER views
startGame ==
    /\ gameState \in {"START", "GAMEOVER"}
    /\ score' = 0
    /\ timeLeft' = FullTime
    /\ gameState' = "PLAYING"
    /\ \E level \in generateColor(0) : levelData' = Some(level)
    /\ lastDiff' = Null
    /\ timerEffect("PLAYING")
    /\ confetti' = 0
    /\ lastEvent' = "start"
    /\ lastIndex' = -1
    /\ prevGameState' = gameState

\* `hsl(${c.h}, ${c.s}%, ${c.l}%)`
hslString(c) == <<"hsl", c.h, c.s, c.l>>

\* Number(x.toFixed(2)) of a quarter-unit value, in hundredths
toFixed2(q) == (q * 100 + Scale \div 2) \div Scale

\* the display delta of a solved level, in quarter units
displayDelta(level) ==
    Abs(level.baseColor.h - level.diffColor.h)
      + Abs(level.baseColor.s - level.diffColor.s)
      + Abs(level.baseColor.l - level.diffColor.l)

\* fault variant of bonusTime: the bonus without the cap
bonusTime_NoCap(prev) == prev + BonusSeconds

\* setTimeLeft(prev => Math.min(60, prev + 2))
bonusTime(prev) == Min(FullTime, prev + BonusSeconds)

\* fault variant of penaltyTime: the penalty without the floor
penaltyTime_NoFloor(prev) == prev - PenaltySeconds

\* setTimeLeft(prev => Math.max(0, prev - 5))
penaltyTime(prev) == Max(0, prev - PenaltySeconds)

\* fault variant of correctClick: the next level is generated from the old
\* score
correctClick_StaleDifficulty ==
    LET nextScore == score + 1
        level     == levelData[1]
    IN  /\ score < MaxScore
        /\ score' = nextScore
        /\ lastDiff' = Some([base  |-> hslString(level.baseColor),
                             diff  |-> hslString(level.diffColor),
                             delta |-> toFixed2(displayDelta(level))])
        /\ timeLeft' = bonusTime(timeLeft)
        /\ \E next \in generateColor(score) : levelData' = Some(next)
        /\ confetti' = 0
        /\ UNCHANGED <<gameState, timerRef, intervals>>

\* fault variant of correctClick: lastDiff is taken from the level just
\* generated, not from the one solved
correctClick_FeedbackFromNext ==
    LET nextScore == score + 1
    IN  /\ score < MaxScore
        /\ score' = nextScore
        /\ timeLeft' = bonusTime(timeLeft)
        /\ \E next \in generateColor(nextScore) :
              /\ levelData' = Some(next)
              /\ lastDiff' = Some([base  |-> hslString(next.baseColor),
                                   diff  |-> hslString(next.diffColor),
                                   delta |-> toFixed2(displayDelta(next))])
        /\ confetti' = 0
        /\ UNCHANGED <<gameState, timerRef, intervals>>

\* the Correct branch of handleBlockClick (nextScore ... setLevelData)
correctClick ==
    LET nextScore == score + 1
        level     == levelData[1]
    IN  /\ score < MaxScore
        /\ score' = nextScore
        /\ lastDiff' = Some([base  |-> hslString(level.baseColor),
                             diff  |-> hslString(level.diffColor),
                             delta |-> toFixed2(displayDelta(level))])
        /\ timeLeft' = bonusTime(timeLeft)
        /\ \E next \in generateColor(nextScore) : levelData' = Some(next)
        /\ confetti' = 0
        /\ UNCHANGED <<gameState, timerRef, intervals>>

\* fault variant of wrongClick: a penalty that empties the clock ends the
\* game at once
wrongClick_EndsAtZero ==
    LET left == penaltyTime(timeLeft)
        next == IF left = 0 THEN "GAMEOVER" ELSE gameState
    IN  /\ timeLeft' = left
        /\ gameState' = next
        /\ timerEffect(next)
        /\ confetti' = 0
        /\ UNCHANGED <<score, levelData, lastDiff>>

\* the Wrong branch of handleBlockClick
wrongClick ==
    /\ timeLeft' = penaltyTime(timeLeft)
    /\ confetti' = 0
    /\ UNCHANGED <<gameState, score, levelData, lastDiff, timerRef, intervals>>

\* fault variant of handleBlockClick: the guard tests levelData alone
handleBlockClick_NoStateGuard(index) ==
    IF levelData = Null
    THEN /\ confetti' = 0
         /\ UNCHANGED <<gameState, score, timeLeft, levelData, lastDiff,
                        timerRef, intervals>>
    ELSE IF index = levelData[1].diffIndex
         THEN correctClick
         ELSE wrongClick

\* handleBlockClick(index); it sets gameState nowhere, so no effect runs
handleBlockClick(index) ==
    IF gameState # "PLAYING" \/ levelData = Null
    THEN /\ confetti' = 0
         /\ UNCHANGED <<gameState, score, timeLeft, levelData, lastDiff,
                        timerRef, intervals>>
    ELSE IF index = levelData[1].diffIndex
         THEN correctClick
         ELSE wrongClick

\* the cells of the grid, [...Array(gridSize * gridSize)]
Cells == 0..(GridSize * GridSize - 1)

\* the cells the model clicks: the two cells IndexDraws can make the odd
\* one, and one cell that never is
ClickDraws == {c \in Cells : c \in IndexDraws \/ c = 7}

\* onClick={() => handleBlockClick(i)} of cell index
clickCell(index) ==
    /\ handleBlockClick(index)
    /\ lastEvent' = "click"
    /\ lastIndex' = index
    /\ prevGameState' = gameState

cellClicked == \E index \in ClickDraws : clickCell(index)

\* fault variant of tickUpdater: the test is prev <= 0
tickUpdater_OffByOne(prev) ==
    IF prev <= 0
    THEN [value |-> 0, gameOver |-> TRUE, confetti |-> 1]
    ELSE [value |-> prev - 1, gameOver |-> FALSE, confetti |-> 0]

\* fault variant of tickUpdater: confetti() stands before the test
tickUpdater_ConfettiEachTick(prev) ==
    IF prev <= 1
    THEN [value |-> 0, gameOver |-> TRUE, confetti |-> 1]
    ELSE [value |-> prev - 1, gameOver |-> FALSE, confetti |-> 1]

\* fault variant of tickUpdater: the last second is returned as it is
tickUpdater_KeepsLastSecond(prev) ==
    IF prev <= 1
    THEN [value |-> prev, gameOver |-> TRUE, confetti |-> 1]
    ELSE [value |-> prev - 1, gameOver |-> FALSE, confetti |-> 0]

\* the updater the interval callback hands to setTimeLeft: the timeLeft it
\* returns, whether it called setGameState('GAMEOVER'), and how many times
\* it called confetti()
tickUpdater(prev) ==
    IF prev <= 1
    THEN [value |-> 0, gameOver |-> TRUE, confetti |-> 1]
    ELSE [value |-> prev - 1, gameOver |-> FALSE, confetti |-> 0]

\* one firing of a live interval
intervalCallback(id) ==
    LET u    == tickUpdater(timeLeft)
        next == IF u.gameOver THEN "GAMEOVER" ELSE gameState
    IN  /\ id \in intervals
        /\ timeLeft' = u.value
        /\ gameState' = next
        /\ confetti' = u.confetti
        /\ timerEffect(next)
        /\ UNCHANGED <<score, levelData, lastDiff>>

tick ==
    \E id \in intervals :
        /\ intervalCallback(id)
        /\ lastEvent' = "tick"
        /\ lastIndex' = -1
        /\ prevGameState' = gameState

\* fault variant of setGameStateStart: the handler names the wrong state
setGameStateStart_WrongState ==
    /\ gameState' = "PLAYING"
    /\ timerEffect("PLAYING")
    /\ confetti' = 0
    /\ UNCHANGED <<score, timeLeft, levelData, lastDiff>>

\* onClick={() => setGameState('START')}
setGameStateStart ==
    /\ gameState' = "START"
    /\ timerEffect("START")
    /\ confetti' = 0
    /\ UNCHANGED <<score, timeLeft, levelData, lastDiff>>

\* the header's Info button, rendered in every view
headerInfo ==
    /\ setGameStateStart
    /\ lastEvent' = "menu"
    /\ lastIndex' = -1
    /\ prevGameState' = gameState

\* the Main Menu button of the GAMEOVER view
mainMenu ==
    /\ gameState = "GAMEOVER"
    /\ setGameStateStart
    /\ lastEvent' = "menu"
    /\ lastIndex' = -1
    /\ prevGameState' = gameState

Next ==
    \/ startGame
    \/ cellClicked
    \/ tick
    \/ headerInfo
    \/ mainMenu

Spec == Init /\ [][Next]_vars

----------------------------------------------------------------------------
(* The scripted session: a start, a click on the odd cell, a click on a    *)
(* cell that is not the odd one, then ticks only.  The steps are told      *)
(* apart by the history variables alone, not by the values they produce.   *)

\* a cell no draw makes the odd one
WrongCell == CHOOSE c \in ClickDraws : c \notin IndexDraws

ScenarioNext ==
    \/ (lastEvent = "none" /\ startGame)
    \/ (lastEvent = "start" /\ clickCell(levelData[1].diffIndex))
    \/ (lastEvent = "click" /\ lastIndex # WrongCell /\ clickCell(WrongCell))
    \/ (lastEvent = "click" /\ lastIndex = WrongCell /\ tick)
    \/ (lastEvent = "tick" /\ tick)

SpecScenario == Init /\ [][ScenarioNext]_vars

\* The session with the interval firing: a live setInterval calls back
\* again and again until it is cleared.
SpecLive == Init /\ [][Next]_vars /\ WF_vars(tick)

----------------------------------------------------------------------------
(* The generator on its own: score holds the difficulty it is applied to,  *)
(* levelData what it returned.                                             *)

GenInit ==
    /\ gameState = "PLAYING"
    /\ score \in 0..MaxDifficulty
    /\ timeLeft = FullTime
    /\ levelData = Null
    /\ lastDiff = Null
    /\ timerRef = NoTimer
    /\ intervals = {}
    /\ confetti = 0
    /\ lastEvent = "none"
    /\ lastIndex = -1
    /\ prevGameState = "START"

\* setLevelData(generateColor(score))
genGenerate ==
    /\ levelData = Null
    /\ \E level \in generateColorWide(score) : levelData' = Some(level)
    /\ lastEvent' = "generate"
    /\ UNCHANGED <<gameState, score, timeLeft, lastDiff, timerRef, intervals,
                   confetti, lastIndex, prevGameState>>

\* setLevelData(generateColor(score + 1)), the base colour drawn as before
genHarder ==
    /\ levelData # Null
    /\ score < MaxDifficulty
    /\ score' = score + 1
    /\ \E level \in perturbFrom(score + 1,
                                 levelData[1].baseColor.h \div Scale,
                                 levelData[1].baseColor.s \div Scale,
                                 levelData[1].baseColor.l \div Scale) :
          levelData' = Some(level)
    /\ lastEvent' = "harder"
    /\ UNCHANGED <<gameState, timeLeft, lastDiff, timerRef, intervals,
                   confetti, lastIndex, prevGameState>>

GenNext == genGenerate \/ genHarder

SpecGen == GenInit /\ [][GenNext]_vars

----------------------------------------------------------------------------
(* Properties *)

\* the magnitude by which diffColor departs from baseColor, in quarter
\* units: the additive hue shift round the circle plus the two distances
perturbation(level) ==
    ((level.diffColor.h - level.baseColor.h) % (HueCircle * Scale))
      + Abs(level.diffColor.s - level.baseColor.s)
      + Abs(level.diffColor.l - level.baseColor.l)

\* exactly one interval is live and timerRef holds it
TimerArmed == intervals = {timerRef} /\ timerRef # NoTimer

\* C1: in every reachable state score >= 0 and 0 <= timeLeft <= 60.
C1_SessionInvariant ==
    /\ score >= 0
    /\ timeLeft >= 0
    /\ timeLeft <= 60

\* C1 witness: a correct click that ran into the cap of 60, the score
\* risen to 2.
C1_Witness ==
    /\ lastEvent = "click"
    /\ gameState = "PLAYING"
    /\ score = 2
    /\ timeLeft = 60

\* C2: a start from START or GAMEOVER yields PLAYING with score 0, timeLeft
\* 60, no lastDiff, a level of perturbation magnitude 15 (difficulty 0) and
\* the timer armed, whatever the values before.
C2_StartResets ==
    [][lastEvent' = "start" =>
          /\ gameState \in {"START", "GAMEOVER"}
          /\ gameState' = "PLAYING"
          /\ score' = 0
          /\ timeLeft' = 60
          /\ lastDiff' = Null
          /\ levelData' # Null
          /\ perturbation(levelData'[1]) = 15 * Scale
          /\ TimerArmed']_vars

\* C2 witness: a start handled in GAMEOVER, after a session that ended.
C2_Witness ==
    /\ lastEvent = "start"
    /\ prevGameState = "GAMEOVER"
    /\ gameState = "PLAYING"

\* C3: a click on levelData.diffIndex in PLAYING adds exactly 1 to score,
\* sets timeLeft to min(60, timeLeft + 2), replaces the level by one whose
\* perturbation is that of difficulty score + 1, and stays in PLAYING.
C3_CorrectClick ==
    [][(/\ lastEvent' = "click"
        /\ gameState = "PLAYING"
        /\ levelData # Null
        /\ lastIndex' = levelData[1].diffIndex)
          => /\ score' = score + 1
             /\ timeLeft' = Min(60, timeLeft + 2)
             /\ levelData' # Null
             /\ perturbation(levelData'[1]) = Max(6, 60 - score')
             /\ gameState' = "PLAYING"]_vars

\* C3 witness: a correct click below the cap: score 1 with timeLeft 59 is
\* reached only by a correct click at timeLeft 57.
C3_Witness ==
    /\ lastEvent = "click"
    /\ gameState = "PLAYING"
    /\ score = 1
    /\ lastDiff # Null
    /\ timeLeft = 59

\* C4: a click on any other cell in PLAYING sets timeLeft to
\* max(0, timeLeft - 5) and leaves score, levelData, lastDiff and gameState
\* unchanged.
C4_WrongClick ==
    [][(/\ lastEvent' = "click"
        /\ gameState = "PLAYING"
        /\ levelData # Null
        /\ lastIndex' # levelData[1].diffIndex)
          => /\ timeLeft' = Max(0, timeLeft - 5)
             /\ UNCHANGED <<score, levelData, lastDiff, gameState>>]_vars

\* C4 witness: a wrong click that ran into the floor: timeLeft 0 in PLAYING
\* is left by no tick and no correct click, only by a penalty.
C4_Witness ==
    /\ lastEvent = "click"
    /\ levelData # Null
    /\ lastIndex # levelData[1].diffIndex
    /\ gameState = "PLAYING"
    /\ timeLeft = 0
    /\ score = 0

\* C5: a click handled in START or GAMEOVER, on any cell, changes none of
\* gameState, score, timeLeft, levelData, lastDiff.
C5_ClickIgnored ==
    [][(lastEvent' = "click" /\ gameState # "PLAYING")
          => UNCHANGED <<gameState, score, timeLeft, levelData, lastDiff>>]_vars

\* C5 witness: a click handled in GAMEOVER with the level of the ended
\* session still held.
C5_Witness ==
    /\ lastEvent = "click"
    /\ Len(levelData) = 1
    /\ lastIndex = levelData[1].diffIndex
    /\ prevGameState = "GAMEOVER"
    /\ gameState = "GAMEOVER"
    /\ score > 0

\* C6: a tick in PLAYING with timeLeft <= 1 sets timeLeft to 0 and moves to
\* GAMEOVER; with timeLeft >= 2 it subtracts exactly 1 and stays in PLAYING;
\* either way score, levelData and lastDiff are unchanged.
C6_Tick ==
    [][(lastEvent' = "tick" /\ gameState = "PLAYING")
          => /\ timeLeft <= 1 => (timeLeft' = 0 /\ gameState' = "GAMEOVER")
             /\ timeLeft >= 2 => (timeLeft' = timeLeft - 1
                                   /\ gameState' = "PLAYING")
             /\ UNCHANGED <<score, levelData, lastDiff>>]_vars

\* C6 witness: the tick that ended a session.
C6_Witness ==
    /\ lastEvent = "tick"
    /\ prevGameState = "PLAYING"
    /\ gameState = "GAMEOVER"
    /\ timeLeft = 0

\* C7: an interval is live exactly when gameState is PLAYING, never more
\* than one, and it is the one timerRef holds; no tick is handled outside
\* PLAYING.
C7_TimerArmedIffPlaying ==
    /\ [](/\ (gameState = "PLAYING") <=> (intervals # {})
          /\ Cardinality(intervals) <= 1
          /\ intervals # {} => TimerArmed)
    /\ [][lastEvent' = "tick" => gameState = "PLAYING"]_vars

\* C7 witness: a menu reset handled in PLAYING: the session's interval was
\* armed (timerRef holds its handle) and is live no more.
C7_Witness ==
    /\ lastEvent = "menu"
    /\ prevGameState = "PLAYING"
    /\ gameState = "START"
    /\ timerRef # NoTimer
    /\ intervals = {}

\* C8: an event calls confetti() once if it takes gameState from PLAYING to
\* GAMEOVER and not at all otherwise, so the calls and the transitions are
\* equal in number over any run.
C8_ConfettiOncePerGameOver ==
    [][confetti' = IF gameState = "PLAYING" /\ gameState' = "GAMEOVER"
                   THEN 1 ELSE 0]_vars

\* C8 witness: the state after the event that fired the effect.
C8_Witness ==
    /\ confetti = 1
    /\ gameState = "GAMEOVER"
    /\ score > 0

\* C9 as stated: GAMEOVER is left only by a start, to PLAYING.
C9_OnlyStartLeavesGameOver ==
    [][(gameState = "GAMEOVER" /\ gameState' # "GAMEOVER")
          => (lastEvent' = "start" /\ gameState' = "PLAYING")]_vars

\* C9 amended: GAMEOVER is left only by a start, to PLAYING, or by a menu
\* reset (the Main Menu button or the header's Info button), to START; no
\* tick and no click leaves it.
C9_StartOrMenuLeavesGameOver ==
    [][(gameState = "GAMEOVER" /\ gameState' # "GAMEOVER")
          => \/ (lastEvent' = "start" /\ gameState' = "PLAYING")
             \/ (lastEvent' = "menu" /\ gameState' = "START")]_vars

\* C9 witness: START entered from GAMEOVER by a menu reset.
C9_Witness ==
    /\ lastEvent = "menu"
    /\ prevGameState = "GAMEOVER"
    /\ gameState = "START"

\* C10: GAMEOVER is entered only by a tick; a click never changes
\* gameState, also when its penalty leaves timeLeft at 0; and a correct
\* click at timeLeft 0 gives timeLeft 2 in PLAYING.
C10_GameOverOnlyByTick ==
    [][/\ (gameState # "GAMEOVER" /\ gameState' = "GAMEOVER")
             => lastEvent' = "tick"
       /\ lastEvent' = "click" => gameState' = gameState
       /\ (/\ lastEvent' = "click"
           /\ gameState = "PLAYING"
           /\ levelData # Null
           /\ timeLeft = 0
           /\ lastIndex' = levelData[1].diffIndex)
             => (timeLeft' = 2 /\ gameState' = "PLAYING")]_vars

\* C10 witness: PLAYING with timeLeft 0 after a wrong click, a correct
\* click having been made earlier in the session.
C10_Witness ==
    /\ lastEvent = "click"
    /\ levelData # Null
    /\ lastIndex # levelData[1].diffIndex
    /\ prevGameState = "PLAYING"
    /\ gameState = "PLAYING"
    /\ timeLeft = 0
    /\ score = 1

\* C11: in the scripted session the correct click gives score 1 and
\* timeLeft 60, the incorrect click timeLeft 55, and every tick after it
\* takes exactly 1 from timeLeft with score 1 kept, the state being PLAYING
\* as long as timeLeft is positive (timeLeft 1 after 54 ticks) and GAMEOVER
\* with timeLeft 0 at the tick that reaches it (the 55th).
C11_ScriptedSession ==
    /\ [][(lastEvent = "start" /\ lastEvent' = "click")
             => (score' = 1 /\ timeLeft' = 60 /\ gameState' = "PLAYING")]_vars
    /\ [][(lastEvent = "click" /\ lastEvent' = "click")
             => (score' = 1 /\ timeLeft' = 55 /\ gameState' = "PLAYING")]_vars
    /\ [][lastEvent' = "tick"
             => /\ timeLeft' = timeLeft - 1
                /\ score' = 1
                /\ gameState' = IF timeLeft' = 0 THEN "GAMEOVER"
                                                 ELSE "PLAYING"]_vars
    /\ []((lastEvent = "tick" /\ timeLeft = 1) => gameState = "PLAYING")

\* C11 witness: the end of the scripted session.
C11_Witness ==
    /\ lastEvent = "tick"
    /\ prevGameState = "PLAYING"
    /\ gameState = "GAMEOVER"
    /\ timeLeft = 0
    /\ score = 1
    /\ lastDiff # Null

changedChannels(level) ==
    {c \in {"h", "s", "l"} : level.diffColor[c] # level.baseColor[c]}

\* C13: for every difficulty and every outcome of the draws exactly one of
\* hue, saturation, lightness differs between baseColor and diffColor (so
\* neither clamping nor the hue wrap gives diffColor = baseColor), and a
\* changed hue is (base hue + delta(d)) mod 360.
C13_ExactlyOneChannel ==
    levelData # Null =>
        LET level == levelData[1]
        IN  /\ Cardinality(changedChannels(level)) = 1
            /\ "h" \in changedChannels(level) =>
                  level.diffColor.h =
                     (level.baseColor.h + Max(6, 60 - score)) % (360 * 4)

\* C13 witness: a hue perturbation that wrapped past 360.
C13_Witness ==
    /\ levelData # Null
    /\ changedChannels(levelData[1]) = {"h"}
    /\ levelData[1].diffColor.h < levelData[1].baseColor.h

\* C14: every generated level has gridSize 5, diffIndex in 0..24, both
\* colours with hue in [0, 360) and saturation and lightness in [0, 100],
\* base saturation in [40, 80) and base lightness in [30, 70).
C14_WellFormedLevel ==
    levelData # Null =>
        LET level == levelData[1]
        IN  /\ level.gridSize = 5
            /\ level.diffIndex >= 0 /\ level.diffIndex < 25
            /\ \A c \in {level.baseColor, level.diffColor} :
                  /\ c.h >= 0 /\ c.h < 360 * 4
                  /\ c.s >= 0 /\ c.s <= 100 * 4
                  /\ c.l >= 0 /\ c.l <= 100 * 4
            /\ level.baseColor.s >= 40 * 4 /\ level.baseColor.s < 80 * 4
            /\ level.baseColor.l >= 30 * 4 /\ level.baseColor.l < 70 * 4

\* C14 witness: a level at the upper ends: base hue 359, base saturation
\* 79 raised by 15, the last cell.
C14_Witness ==
    /\ levelData # Null
    /\ score = 0
    /\ levelData[1].baseColor.h = 359 * 4
    /\ levelData[1].baseColor.s = 79 * 4
    /\ levelData[1].diffColor.s = 94 * 4
    /\ levelData[1].diffIndex = 24

\* a click step on the odd cell, handled in PLAYING with a level held
CorrectClickStep ==
    /\ lastEvent' = "click"
    /\ gameState = "PLAYING"
    /\ levelData # Null
    /\ lastIndex' = levelData[1].diffIndex

\* C15: in every reachable state with gameState PLAYING the level held was
\* generated at difficulty score: its perturbation is
\* max(1.5, 15 - 0.25 * score).
C15_DifficultyTracksScore ==
    gameState = "PLAYING" =>
        /\ levelData # Null
        /\ perturbation(levelData[1]) = Max(6, 60 - score)

\* C15 witness: PLAYING at score 2 after two correct clicks and then a
\* wrong one.
C15_Witness ==
    /\ gameState = "PLAYING"
    /\ score = 2
    /\ lastEvent = "click"
    /\ lastIndex = WrongCell
    /\ levelData # Null

\* C16: score counts the correct clicks accepted in PLAYING since the last
\* start: a start sets it to 0, a click on the odd cell in PLAYING adds
\* exactly 1, and no other event (wrong click, ignored click, tick, menu
\* reset) changes it.
C16_ScoreCountsCorrectClicks ==
    [][score' = IF lastEvent' = "start" THEN 0
                ELSE IF CorrectClickStep THEN score + 1
                ELSE score]_vars

\* C16 witness: score 2, counted by two correct clicks and kept through
\* the ticks that followed.
C16_Witness ==
    /\ gameState = "PLAYING"
    /\ score = 2
    /\ lastEvent = "tick"
    /\ timeLeft = 52

\* C17: a correct click sets lastDiff from the level it solved, the one
\* held before the click: its two colour strings, and as delta the sum of
\* the three channel distances of that level (here in hundredths, 25 per
\* quarter unit); lastDiff changes in no step but a correct click or a
\* start.
C17_FeedbackFromSolvedLevel ==
    [][/\ CorrectClickStep =>
            LET b == levelData[1].baseColor
                d == levelData[1].diffColor
            IN  /\ lastDiff' # Null
                /\ lastDiff'[1].base = <<"hsl", b.h, b.s, b.l>>
                /\ lastDiff'[1].diff = <<"hsl", d.h, d.s, d.l>>
                /\ lastDiff'[1].delta =
                      25 * (Abs(b.h - d.h) + Abs(b.s - d.s) + Abs(b.l - d.l))
       /\ lastDiff' # lastDiff => (CorrectClickStep \/ lastEvent' = "start")
      ]_vars

\* C17 witness: after a correct click the colours of lastDiff are not those
\* of the level now held.
C17_Witness ==
    /\ lastEvent = "click"
    /\ lastDiff # Null
    /\ levelData # Null
    /\ lastDiff[1].base # <<"hsl", levelData[1].baseColor.h,
                            levelData[1].baseColor.s, levelData[1].baseColor.l>>

\* C18 as stated: the delta of lastDiff is the perturbation of the level
\* solved, max(1.5, 15 - 0.25 d) for its difficulty d = score - 1 (in
\* hundredths, 25 per quarter unit), and so never above 15.
C18_FeedbackIsMagnitude ==
    lastDiff # Null =>
        /\ lastDiff[1].delta = 25 * Max(6, 60 - (score - 1))
        /\ lastDiff[1].delta <= 1500

C20_EndedKeepsFinalValues ==
    /\ [](gameState = "GAMEOVER" => timeLeft = 0)
    /\ [][gameState' = "GAMEOVER"
             => UNCHANGED <<score, levelData, lastDiff>>]_vars

\* C20 witness: GAMEOVER with score 2 after a click was handled there.
C20_Witness ==
    /\ gameState = "GAMEOVER"
    /\ timeLeft = 0
    /\ score = 2
    /\ lastDiff # Null
    /\ lastEvent = "click"
    /\ lastIndex = WrongCell
====
